---- MODULE Spec2Model ----
(***************************************************************************)
(* Graph surgery of kerasprune/prune.py: insert_layer, replace_layer,      *)
(* delete_layer and delete_channels, all driven by reused_core_logic and   *)
(* rebuild_submodel, with the per-kind weight trimming of                  *)
(* _apply_delete_mask.                                                     *)
(*                                                                         *)
(* A graph is a list of node instances in topological order.  The output   *)
(* tensor of node instance p of the model being edited is the tensor       *)
(* [new |-> FALSE, i |-> p]; the output of the k-th node created during    *)
(* the edit is [new |-> TRUE, i |-> k].  numpy arrays are kept as a shape  *)
(* and the row-major list of their elements.                               *)
(***************************************************************************)
EXTENDS Integers, Sequences, FiniteSets, TLC

\* Number of node instances of a graph, the input node included.
NumNodes == 4

\* Number of units of every dense layer, and the width of the graph input.
MaxUnits == 3

\* Longest list of channel indices handed to delete_channels.
MaxChannels == 2

(***************************************************************************)
(* numpy arrays                                                            *)
(***************************************************************************)
Arr(shape, data) == [none |-> FALSE, shape |-> shape, data |-> data]

\* Python's None where a delete mask is expected.
None == [none |-> TRUE, shape |-> <<>>, data |-> <<>>]

RECURSIVE Prod(_)
Prod(s) == IF s = <<>> THEN 1 ELSE Head(s) * Prod(Tail(s))

RECURSIVE Pick(_, _)
\* The elements of data whose flag is TRUE, in order.
Pick(data, flags) ==
    IF data = <<>> THEN <<>>
    ELSE (IF Head(flags) THEN <<Head(data)>> ELSE <<>>) \o Pick(Tail(data), Tail(flags))

Last(s) == s[Len(s)]

ButLast(s) == SubSeq(s, 1, Len(s) - 1)

Ones(shape) == Arr(shape, [k \in 1..Prod(shape) |-> TRUE])

\* numpy's wrap of a negative index along an axis of size n.
Wrap(i, n) == IF i < 0 THEN i + n ELSE i

InBounds(i, n) == (0 - n) <= i /\ i < n

SeqToSet(s) == {s[k] : k \in 1..Len(s)}

\* np.delete(w, idx, axis=-1) for indices that are all within bounds.
NpDeleteLast(w, idx) ==
    LET n    == Last(w.shape)
        gone == {Wrap(i, n) : i \in SeqToSet(idx)}
        keep == [k \in 1..Len(w.data) |-> ((k - 1) % n) \notin gone]
    IN Arr(ButLast(w.shape) \o <<n - Cardinality(gone)>>, Pick(w.data, keep))

\* np.where(mask)[0]: the first-axis coordinate of every TRUE element.
RECURSIVE WhereFrom(_, _, _)
WhereFrom(data, k, stride) ==
    IF k > Len(data) THEN <<>>
    ELSE (IF data[k] THEN <<(k - 1) \div stride>> ELSE <<>>) \o WhereFrom(data, k + 1, stride)

\* A faulty np.where that selects the elements that are FALSE.
NpWhere0_inverted(mask) ==
    WhereFrom([k \in 1..Len(mask.data) |-> ~mask.data[k]], 1, Prod(Tail(mask.shape)))

NpWhere0(mask) == WhereFrom(mask.data, 1, Prod(Tail(mask.shape)))

\* w[rows, :] for a 2-D array w and a list of row indices within bounds.
TakeRows(w, rows) ==
    LET c == w.shape[2]
    IN Arr(<<Len(rows), c>>,
           [k \in 1..(Len(rows) * c) |->
               w.data[rows[((k - 1) \div c) + 1] * c + ((k - 1) % c) + 1]])

(***************************************************************************)
(* Layers (operations) and graphs                                          *)
(***************************************************************************)
\* A layer: its object identity, its config (name, units) and its weights.
\* chan is the key of the config that holds the channel count, "none" when
\* the config has neither "units" nor "filters".
Layer(id, name, kind, chan, count, weights, oshape) ==
    [id |-> id, name |-> name, kind |-> kind, chan |-> chan, count |-> count,
     weights |-> weights, oshape |-> oshape]

\* The weights of the dense layer named l: a kernel and a bias whose
\* elements are all different.
DenseWeights(l) ==
    << Arr(<<MaxUnits, MaxUnits>>, [k \in 1..(MaxUnits * MaxUnits) |-> 100 * l + k]),
       Arr(<<MaxUnits>>, [k \in 1..MaxUnits |-> 100 * l + 50 + k]) >>

MakeLayer(l, kind) ==
    IF kind = "Dense"
    THEN Layer(l, l, kind, "units", MaxUnits, DenseWeights(l), <<MaxUnits>>)
    ELSE Layer(l, l, kind, "none", 0, <<>>, <<MaxUnits>>)

\* The inbound edges a node instance may have: from one or both of the two
\* node instances before it.
InbChoices(p) ==
    CASE p = 1 -> {<<>>}
      [] p = 2 -> {<<1>>}
      [] OTHER -> {<<p - 1>>, <<p - 2>>, <<p - 2, p - 1>>}

KindChoices(inb) ==
    CASE Len(inb) = 0 -> {"InputLayer"}
      [] Len(inb) = 1 -> {"Dense", "Flatten", "Activation"}
      [] OTHER        -> {"Add"}

\* Node instances that no node consumes: the declared outputs.
Sinks(inb) == {p \in 1..NumNodes : \A q \in 1..NumNodes : p \notin SeqToSet(inb[q])}

RECURSIVE SetToSeq(_)
\* The elements of a set of integers in increasing order.
SetToSeq(S) ==
    IF S = {} THEN <<>>
    ELSE LET m == CHOOSE x \in S : \A y \in S : x <= y
         IN <<m>> \o SetToSeq(S \ {m})

\* The graph with the given edges and kinds.  When shared, the last node
\* instance is a second call of the layer of the node before it.
MakeGraph(inb, kind, shared) ==
    LET nl == IF shared THEN NumNodes - 1 ELSE NumNodes
    IN [nodes   |-> [p \in 1..NumNodes |->
                        [id |-> p, layer |-> IF p > nl THEN nl ELSE p, inb |-> inb[p]]],
        layers  |-> [l \in 1..nl |-> MakeLayer(l, kind[l])],
        inputs  |-> <<1>>,
        outputs |-> SetToSeq(Sinks(inb))]

RECURSIVE InbSeqs(_)
InbSeqs(n) ==
    IF n = 0 THEN {<<>>}
    ELSE {Append(s, c) : s \in InbSeqs(n - 1), c \in InbChoices(n)}

RECURSIVE KindSeqs(_, _)
KindSeqs(inb, n) ==
    IF n = 0 THEN {<<>>}
    ELSE {Append(s, k) : s \in KindSeqs(inb, n - 1), k \in KindChoices(inb[n])}

\* A layer is called twice only where both calls have one input.
ShareChoices(inb, kind) ==
    IF /\ Len(inb[NumNodes]) = 1
       /\ Len(inb[NumNodes - 1]) = 1
       /\ kind[NumNodes] = kind[NumNodes - 1]
    THEN BOOLEAN ELSE {FALSE}

Graphs ==
    UNION {UNION {{MakeGraph(inb, kind, shared) : shared \in ShareChoices(inb, kind)} :
                     kind \in KindSeqs(inb, NumNodes)} :
              inb \in InbSeqs(NumNodes)}

(***************************************************************************)
(* Helpers of kerasprune.utils and kerasprune.model_utils                  *)
(***************************************************************************)
\* A list of one element stands for that element.
extract_if_single_element(x) == IF Len(x) = 1 THEN x[1] ELSE x

\* layer.inbound_nodes: the node instances of layer l, in call order.
InboundNodes(gr, l) == SetToSeq({p \in 1..Len(gr.nodes) : gr.nodes[p].layer = l})

Consumers(gr, p) == {q \in 1..Len(gr.nodes) : p \in SeqToSet(gr.nodes[q].inb)}

Max(S) == CHOOSE x \in S : \A y \in S : y <= x

RECURSIVE get_node_depth(_, _)
\* The longest path, in edges, from node instance p to a declared output.
get_node_depth(gr, p) ==
    Max((IF p \in SeqToSet(gr.outputs) THEN {0} ELSE {})
        \cup {1 + get_node_depth(gr, q) : q \in Consumers(gr, p)})

RECURSIVE sort_x_by_y(_, _)
\* x ordered by increasing y, equal y by increasing x.
sort_x_by_y(x, y) ==
    IF x = <<>> THEN <<>>
    ELSE LET k == CHOOSE i \in 1..Len(x) : \A j \in 1..Len(x) :
                      \/ y[i] < y[j]
                      \/ y[i] = y[j] /\ x[i] <= x[j]
             rest(s) == [j \in 1..(Len(s) - 1) |-> IF j < k THEN s[j] ELSE s[j + 1]]
         IN <<x[k]>> \o sort_x_by_y(rest(x), rest(y))

\* A faulty order: reversed(...) left out.
Reversed_left_out(s) == s

RECURSIVE Reversed(_)
Reversed(s) == IF s = <<>> THEN <<>> ELSE Append(Reversed(Tail(s)), Head(s))

\* A copy of the graph that shares no node instance and no layer with it:
\* the same edges, names and weights under fresh identities.
clean_copy(gr, base) ==
    [nodes   |-> [p \in 1..Len(gr.nodes) |-> [gr.nodes[p] EXCEPT !.id = base + p]],
     layers  |-> [l \in 1..Len(gr.layers) |-> [gr.layers[l] EXCEPT !.id = base + l]],
     inputs  |-> gr.inputs,
     outputs |-> gr.outputs]

(***************************************************************************)
(* _apply_delete_mask                                                      *)
(***************************************************************************)
\* What type(layer).from_config(config) builds: a new layer object with the
\* config of the old one and the given weights; its output has as many
\* channels as the config says.
FromConfig(layer, id, count, weights) ==
    [layer EXCEPT !.id = id, !.count = count, !.weights = weights,
                  !.oshape = IF layer.chan = "none" THEN @ ELSE ButLast(@) \o <<count>>]

\* The graphs here hold no Conv2D layer (KindChoices), so the Conv2D branch
\* (lines 139-162) is never entered and is left out.
_apply_delete_mask(layer, inbound_delete_masks, id) ==
    IF \A k \in 1..Len(inbound_delete_masks) : inbound_delete_masks[k].none
    THEN [err |-> "ok", layer |-> layer, mask |-> None]
    ELSE LET m == extract_if_single_element(inbound_delete_masks)
         IN CASE layer.kind = "InputLayer" ->
                   [err |-> "RuntimeError", layer |-> layer, mask |-> None]
              [] layer.kind = "Dense" ->
                   LET rows == NpWhere0(m)
                   IN IF \E k \in 1..Len(rows) : rows[k] >= layer.weights[1].shape[1]
                      THEN [err |-> "IndexError", layer |-> layer, mask |-> None]
                      ELSE [err   |-> "ok",
                            layer |-> FromConfig(layer, id, layer.count,
                                         [layer.weights EXCEPT
                                             ![1] = TakeRows(layer.weights[1], rows)]),
                            mask  |-> Ones(layer.oshape)]
              [] layer.kind = "Flatten" ->
                   [err |-> "ok", layer |-> layer, mask |-> Arr(<<Prod(m.shape)>>, m.data)]
              [] OTHER ->
                   [err |-> "UnsupportedOperationKind", layer |-> layer, mask |-> None]

(***************************************************************************)
(* rebuild_submodel                                                        *)
(***************************************************************************)
OldT(p) == [new |-> FALSE, i |-> p]

NewT(k) == [new |-> TRUE, i |-> k]

IndexOf(s, x) == CHOOSE k \in 1..Len(s) : s[k] = x

\* Calling a layer on tensors: a new node instance of that layer.  of is the
\* node instance being rebuilt, 0 for a node the edit itself adds.
CallLayer(ctx, layer, ins, masks, of) ==
    [ctx EXCEPT !.built = Append(@, [id |-> ctx.nextId, op |-> layer, ins |-> ins,
                                     masks |-> masks, of |-> of]),
                !.nextId = @ + 1]

\* A faulty lookup that never finds a node in finished_nodes.
IsFinished_never(ctx, p) == FALSE

\* node in finished_nodes.keys()
IsFinished(ctx, p) == p \in DOMAIN ctx.finished_nodes

\* A faulty default: an all-True mask for every model input.
default_input_delete_masks_ones(model) ==
    [k \in 1..Len(model.inputs) |->
        Ones(model.layers[model.nodes[model.inputs[k]].layer].oshape)]

\* [None] * len(model_inputs)
default_input_delete_masks(model) == [k \in 1..Len(model.inputs) |-> None]

\* A faulty chain of tests that looks into finished_nodes before it looks
\* into replace_tensors.
rebuild_branch_cache_first(env, ctx, p) ==
    IF IsFinished(ctx, p) THEN "finished"
    ELSE IF p \in DOMAIN env.replace_tensors THEN "replaced"
    ELSE IF p \in SeqToSet(env.model.inputs) THEN "input"
    ELSE "rebuild"

\* The if/elif chain of _rebuild_rec: which of its branches node instance p
\* takes.
rebuild_branch(env, ctx, p) ==
    IF p \in DOMAIN env.replace_tensors THEN "replaced"
    ELSE IF IsFinished(ctx, p) THEN "finished"
    ELSE IF p \in SeqToSet(env.model.inputs) THEN "input"
    ELSE "rebuild"

RECURSIVE _rebuild_rec(_, _, _)
RECURSIVE RebuildEach(_, _, _)

\* env: the model, replace_tensors and input_delete_masks of this call;
\* ctx: finished_nodes, the nodes created so far and the raised error.
_rebuild_rec(env, ctx, p) ==
    LET node == env.model.nodes[p]
        br   == rebuild_branch(env, ctx, p)
    IN IF br = "replaced"
       THEN [ctx |-> ctx, out |-> env.replace_tensors[p].out,
             mask |-> env.replace_tensors[p].mask]
       ELSE IF br = "finished"
       THEN [ctx |-> ctx, out |-> ctx.finished_nodes[p].out,
             mask |-> ctx.finished_nodes[p].mask]
       ELSE IF br = "input"
       THEN [ctx |-> ctx, out |-> OldT(p),
             mask |-> env.input_delete_masks[IndexOf(env.model.inputs, p)]]
       ELSE LET r == RebuildEach(env, ctx, node.inb)
                a == _apply_delete_mask(env.model.layers[node.layer], r.masks,
                                        r.ctx.nextId)
                c == CallLayer([r.ctx EXCEPT !.nextId = @ + 1], a.layer, r.outs,
                               r.masks, p)
                o == [out |-> NewT(Len(c.built)), mask |-> a.mask]
            IN IF r.ctx.err # "ok"
               THEN [ctx |-> r.ctx, out |-> OldT(0), mask |-> None]
               ELSE IF node.inb = <<>>
               THEN [ctx |-> [r.ctx EXCEPT !.err = "DanglingOperation"],
                     out |-> OldT(0), mask |-> None]
               ELSE IF a.err # "ok"
               THEN [ctx |-> [r.ctx EXCEPT !.err = a.err], out |-> OldT(0), mask |-> None]
               ELSE [ctx |-> [c EXCEPT !.finished_nodes = (p :> o) @@ @],
                     out |-> o.out, mask |-> o.mask]

\* The list comprehension over the inbound layers, left to right; an
\* exception ends it.
RebuildEach(env, ctx, ps) ==
    IF ps = <<>> \/ ctx.err # "ok"
    THEN [ctx |-> ctx, outs |-> <<>>, masks |-> <<>>]
    ELSE LET h == _rebuild_rec(env, ctx, Head(ps))
             t == RebuildEach(env, h.ctx, Tail(ps))
         IN [ctx |-> t.ctx, outs |-> <<h.out>> \o t.outs, masks |-> <<h.mask>> \o t.masks]

rebuild_submodel(model, ps, replace_tensors, ctx, input_delete_masks) ==
    LET env == [model |-> model, replace_tensors |-> replace_tensors,
                input_delete_masks |->
                    IF input_delete_masks = <<>>
                    THEN default_input_delete_masks(model)
                    ELSE input_delete_masks]
        r == RebuildEach(env, ctx, ps)
    IN IF ps = <<>> THEN [r EXCEPT !.ctx.err = "DanglingOperation"] ELSE r

(***************************************************************************)
(* _delete_channel_weights and _make_delete_mask                           *)
(***************************************************************************)
\* A faulty bound that lets the index equal to the channel count through.
index_out_of_range_off_by_one(i, count) == i > count

\* i + 1 > layer_config[channels_string]
index_out_of_range(i, count) == i + 1 > count

_delete_channel_weights(layer, channel_indices, id) ==
    IF layer.chan = "none"
    THEN [err |-> "MissingChannelDimension", layer |-> layer]
    ELSE IF \E k \in 1..Len(channel_indices) :
                index_out_of_range(channel_indices[k], layer.count)
    THEN [err |-> "ChannelIndexOutOfRange", layer |-> layer]
    ELSE IF \E k \in 1..Len(channel_indices), j \in 1..Len(layer.weights) :
                ~InBounds(channel_indices[k], Last(layer.weights[j].shape))
    THEN [err |-> "IndexError", layer |-> layer]
    ELSE [err   |-> "ok",
          layer |-> FromConfig(layer, id, layer.count - Len(channel_indices),
                       [j \in 1..Len(layer.weights) |->
                           NpDeleteLast(layer.weights[j], channel_indices)])]

_make_delete_mask(layer, channel_indices) ==
    LET n    == Last(layer.oshape)
        gone == {Wrap(i, n) : i \in SeqToSet(channel_indices)}
    IN IF \E k \in 1..Len(channel_indices) : ~InBounds(channel_indices[k], n)
       THEN [err |-> "IndexError", mask |-> None]
       ELSE [err  |-> "ok",
             mask |-> Arr(layer.oshape,
                          [k \in 1..Prod(layer.oshape) |-> ((k - 1) % n) \notin gone])]

(***************************************************************************)
(* The edit in progress                                                    *)
(***************************************************************************)
VARIABLES
    graph,            \* the caller's graph
    pc,               \* "idle", "loop" (in the loop of reused_core_logic), "done"
    call,             \* the entry point called and its arguments
    model,            \* reused_core_logic's model: the graph or its copy
    layer,            \* reused_core_logic's layer, as an index into model.layers
    todo,             \* sorted_indices still to be visited
    replace_tensors,  \* original tensor -> [out, mask]
    ctx,              \* finished_nodes, the nodes created, the next fresh id, the error
    result,           \* what the call returned or raised
    prev,             \* the call before: what it returned, and whether copy was omitted
    ncalls            \* calls made so far

vars == <<graph, pc, call, model, layer, todo, replace_tensors, ctx, result, prev, ncalls>>

\* Layers that are in no graph: one with a unit count, one without.
AbsentDense == Layer(NumNodes + 1, NumNodes + 1, "Dense", "units", MaxUnits,
                     DenseWeights(NumNodes + 1), <<MaxUnits>>)

AbsentActivation == Layer(NumNodes + 2, NumNodes + 2, "Activation", "none", 0, <<>>,
                          <<MaxUnits>>)

\* The caller's new layer for insert_layer and replace_layer: it has no
\* weights and takes whatever inputs it is called on.
CallerLayer == Layer(NumNodes + 3, NumNodes + 3, "Activation", "none", 0, <<>>,
                     <<MaxUnits>>)

FirstId == NumNodes + 4

NoCall == [fn |-> "none", layer |-> CallerLayer, node_indices |-> <<>>,
           channel_indices |-> <<>>, copy_arg |-> "omitted", copy |-> FALSE,
           new_layer |-> CallerLayer, new_delete_mask |-> None,
           input_delete_masks |-> <<>>]

NoResult == [status |-> "none", outputs |-> <<>>, ids |-> {}]

NoPrev == [status |-> "none", ids |-> {}, copy_arg |-> "none"]

NewCtx(id) == [finished_nodes |-> <<>>, built |-> <<>>, nextId |-> id, err |-> "ok"]

\* The layers a caller may name: every layer of the graph but its input
\* layer, and the two absent ones.
Targets == {graph.layers[l] : l \in 2..Len(graph.layers)}
           \cup {AbsentDense, AbsentActivation}

\* node_indices: omitted, or one index of a layer that is called twice.
Selectors(target) ==
    LET n == Cardinality({p \in 1..Len(graph.nodes) :
                             graph.layers[graph.nodes[p].layer].id = target.id})
    IN {<<>>} \cup (IF n > 1 THEN {<<i>> : i \in 0..(n - 1)} ELSE {})

\* The copy argument: omitted, True or False.
CopyArgs == {"omitted", "true", "false"}

CopyValue(arg, default) == IF arg = "omitted" THEN default ELSE arg = "true"

RECURSIVE Lists(_, _)
\* The lists of at most n elements of S.
Lists(S, n) ==
    IF n = 0 THEN {<<>>}
    ELSE Lists(S, n - 1)
         \cup {Append(s, x) : s \in Lists(S, n - 1), x \in S}

\* channel_indices as callers mostly give them: distinct indices, ascending.
PlainLists ==
    {s \in Lists(0..MaxUnits, MaxChannels) :
        /\ s # <<>>
        /\ \A k \in 1..(Len(s) - 1) : s[k] < s[k + 1]}

\* An index given twice.
RepeatedLists == {<<i, i>> : i \in 0..MaxUnits}

\* An index counted from the end, as numpy allows, alone or beside the same
\* channel counted from the front.
NegativeLists ==
    {<<0 - k>> : k \in 1..MaxUnits} \cup {<<0 - MaxUnits, 0>>}

ChannelLists == PlainLists \cup RepeatedLists \cup NegativeLists

Init ==
    /\ graph \in Graphs
    /\ pc = "idle"
    /\ call = NoCall
    /\ model = graph
    /\ layer = 0
    /\ todo = <<>>
    /\ replace_tensors = <<>>
    /\ ctx = NewCtx(FirstId)
    /\ result = NoResult
    /\ prev = NoPrev
    /\ ncalls = 0

Raise(err) ==
    /\ pc' = "done"
    /\ result' = [status |-> err, outputs |-> <<>>, ids |-> {}]

LayerIds(gr) == {gr.layers[l].id : l \in 1..Len(gr.layers)}

\* model.get_layer(name), as an index into model.layers.
get_layer(gr, name) == CHOOSE l \in 1..Len(gr.layers) : gr.layers[l].name = name

\* Lines 322-343 of reused_core_logic, called with the arguments in c and the
\* next fresh identity id: the check, the node indices, the first copy and
\* the order of the nodes.
reused_core_logic(c, id) ==
    /\ pc = "idle"
    /\ call' = c
    /\ ncalls' = ncalls + 1
    /\ IF c.layer.id \notin LayerIds(graph)
       THEN /\ Raise("OperationNotFound")
            /\ ctx' = [ctx EXCEPT !.nextId = id]
            /\ UNCHANGED <<model, layer, todo>>
       ELSE \E l0 \in {l \in 1..Len(graph.layers) : graph.layers[l].id = c.layer.id} :
            \E node_indices \in {IF c.node_indices = <<>>
                                 THEN [k \in 1..Len(InboundNodes(graph, l0)) |-> k - 1]
                                 ELSE c.node_indices} :
            \E m \in {IF c.copy THEN clean_copy(graph, id) ELSE graph} :
            \E l1 \in {IF c.copy THEN get_layer(m, c.layer.name) ELSE l0} :
            \E node_depths \in {[k \in 1..Len(node_indices) |->
                   get_node_depth(m, InboundNodes(m, l1)[node_indices[k] + 1])]} :
               /\ model' = m
               /\ layer' = l1
               /\ todo' = Reversed(sort_x_by_y(node_indices, node_depths))
               /\ ctx' = [ctx EXCEPT !.nextId = IF c.copy THEN id + Len(graph.nodes) + 1
                                                 ELSE id]
               /\ pc' = "loop"
               /\ UNCHANGED result
    /\ UNCHANGED <<graph, replace_tensors, prev>>

Args(fn, target, node_indices, channel_indices, copy_arg, default) ==
    [NoCall EXCEPT !.fn = fn, !.layer = target, !.node_indices = node_indices,
                   !.channel_indices = channel_indices, !.copy_arg = copy_arg,
                   !.copy = CopyValue(copy_arg, default)]

insert_layer ==
    /\ pc = "idle"
    /\ \E target \in Targets, copy \in CopyArgs :
        \E node_indices \in Selectors(target) :
            reused_core_logic(Args("insert", target, node_indices, <<>>, copy, TRUE),
                              ctx.nextId)

replace_layer ==
    /\ pc = "idle"
    /\ \E target \in Targets, copy \in CopyArgs :
        \E node_indices \in Selectors(target) :
            reused_core_logic(Args("replace", target, node_indices, <<>>, copy, TRUE),
                              ctx.nextId)

delete_layer ==
    /\ pc = "idle"
    /\ \E target \in Targets, copy \in CopyArgs :
        \E node_indices \in Selectors(target) :
            reused_core_logic(Args("delete", target, node_indices, <<>>, copy, TRUE),
                              ctx.nextId)

\* Lines 287-296 come before the call of reused_core_logic.
delete_channels ==
    /\ pc = "idle"
    /\ \E target \in Targets, copy \in CopyArgs, channel_indices \in ChannelLists :
        \E node_indices \in Selectors(target) :
            \E w \in {_delete_channel_weights(target, channel_indices, ctx.nextId)} :
            \E m \in {_make_delete_mask(target, channel_indices)} :
            \E c \in {Args("delete_channels", target, node_indices, channel_indices,
                           copy, FALSE)} :
               \/ /\ w.err # "ok" \/ m.err # "ok"
                  /\ pc = "idle"
                  /\ Raise(IF w.err # "ok" THEN w.err ELSE m.err)
                  /\ call' = c
                  /\ ncalls' = ncalls + 1
                  /\ UNCHANGED <<graph, model, layer, todo, replace_tensors, ctx, prev>>
               \/ /\ w.err = "ok" /\ m.err = "ok"
                  /\ reused_core_logic(
                         [c EXCEPT !.new_layer = w.layer,
                                   !.new_delete_mask = m.mask,
                                   !.input_delete_masks =
                                       <<Ones(graph.layers[graph.nodes[graph.inputs[1]].layer].oshape)>>],
                         ctx.nextId + 1)

(***************************************************************************)
(* The modifier functions of the four edits                                *)
(***************************************************************************)
Fail(c, err) == [ctx |-> [c EXCEPT !.err = err], entries |-> <<>>]

\* p is this_layer.inbound_nodes[node_index], inputs the rebuilt tensors.
_insert_layer(c, p, inputs) ==
    IF Len(inputs) >= 2
    THEN Fail(c, "MultiInputUnsupported")
    ELSE LET d == CallLayer(c, call.new_layer, inputs, <<>>, 0)
             old_output == model.nodes[p].inb[1]
         IN [ctx |-> d, entries |-> old_output :> [out |-> NewT(Len(d.built)), mask |-> None]]

\* A _replace_layer with the check of _insert_layer and _delete_layer.
_replace_layer_rejecting(c, p, inputs) ==
    IF Len(inputs) >= 2
    THEN Fail(c, "MultiInputUnsupported")
    ELSE LET d == CallLayer(c, call.new_layer, inputs, <<>>, 0)
         IN [ctx |-> d, entries |-> p :> [out |-> NewT(Len(d.built)), mask |-> None]]

_replace_layer(c, p, inputs) ==
    LET d == CallLayer(c, call.new_layer, inputs, <<>>, 0)
    IN [ctx |-> d, entries |-> p :> [out |-> NewT(Len(d.built)), mask |-> None]]

_delete_layer(c, p, inputs) ==
    IF Len(inputs) >= 2
    THEN Fail(c, "MultiInputUnsupported")
    ELSE [ctx |-> c, entries |-> p :> [out |-> extract_if_single_element(inputs),
                                        mask |-> None]]

_delete_inbound_weights(c, p, inputs) ==
    LET d == CallLayer(c, call.new_layer, inputs, <<>>, 0)
    IN [ctx |-> d,
        entries |-> p :> [out |-> NewT(Len(d.built)), mask |-> call.new_delete_mask]]

modifier_function(c, p, inputs) ==
    CASE call.fn = "insert"  -> _insert_layer(c, p, inputs)
      [] call.fn = "replace" -> _replace_layer(c, p, inputs)
      [] call.fn = "delete"  -> _delete_layer(c, p, inputs)
      [] OTHER               -> _delete_inbound_weights(c, p, inputs)

(***************************************************************************)
(* reused_core_logic, from its loop on                                     *)
(***************************************************************************)
NodeIds(gr) == {gr.nodes[p].id : p \in 1..Len(gr.nodes)}

RECURSIVE Reached(_, _)
\* The tensors a model built on the given output tensors is made of.
Reached(built, ts) ==
    IF ts = <<>> THEN {}
    ELSE LET t == Head(ts)
         IN {t} \cup (IF t.new THEN Reached(built, built[t.i].ins) ELSE {})
                \cup Reached(built, Tail(ts))

\* Lines 344-365: one turn of the loop over the sorted node indices.
CoreLoop ==
    /\ pc = "loop"
    /\ todo # <<>>
    /\ \E p \in {InboundNodes(model, layer)[Head(todo) + 1]} :
       \E r \in {rebuild_submodel(model, model.nodes[p].inb, replace_tensors, ctx,
                                  call.input_delete_masks)} :
       \E cb \in {IF r.ctx.err = "ok" THEN modifier_function(r.ctx, p, r.outs)
                  ELSE Fail(r.ctx, r.ctx.err)} :
          IF cb.ctx.err # "ok"
          THEN /\ Raise(cb.ctx.err)
               /\ ctx' = cb.ctx
               /\ UNCHANGED <<todo, replace_tensors>>
          ELSE /\ replace_tensors' = cb.entries @@ replace_tensors
               /\ ctx' = cb.ctx
               /\ todo' = Tail(todo)
               /\ UNCHANGED <<pc, result>>
    /\ UNCHANGED <<graph, call, model, layer, prev, ncalls>>

\* The node instances of the Model built on the given output tensors.
ModelNodeIds(built, outs) ==
    {IF t.new THEN built[t.i].id ELSE model.nodes[t.i].id : t \in Reached(built, outs)}

\* Lines 367-378: the rest of the model, the new Model, the second copy.
CoreFinish ==
    /\ pc = "loop"
    /\ todo = <<>>
    /\ \E r \in {rebuild_submodel(model, model.outputs, replace_tensors, ctx,
                                  call.input_delete_masks)} :
       \E ids \in {IF r.ctx.err = "ok" THEN ModelNodeIds(r.ctx.built, r.outs) ELSE {}} :
          IF r.ctx.err # "ok"
          THEN /\ Raise(r.ctx.err)
               /\ ctx' = r.ctx
          ELSE /\ pc' = "done"
               /\ IF call.copy
                  THEN /\ result' = [status |-> "ok", outputs |-> r.outs,
                                     ids |-> {r.ctx.nextId + k : k \in 1..Cardinality(ids)}]
                       /\ ctx' = [r.ctx EXCEPT !.nextId = @ + Cardinality(ids) + 1]
                  ELSE /\ result' = [status |-> "ok", outputs |-> r.outs, ids |-> ids]
                       /\ ctx' = r.ctx
    /\ UNCHANGED <<graph, call, model, layer, todo, replace_tensors, prev, ncalls>>

\* The caller calls an edit again, on the same graph.
MaxCalls == 2

Again ==
    /\ pc = "done"
    /\ ncalls < MaxCalls
    /\ pc' = "idle"
    /\ prev' = [status |-> result.status, ids |-> result.ids, copy_arg |-> call.copy_arg]
    /\ call' = NoCall
    /\ model' = graph
    /\ layer' = 0
    /\ todo' = <<>>
    /\ replace_tensors' = <<>>
    /\ ctx' = NewCtx(ctx.nextId)
    /\ result' = NoResult
    /\ UNCHANGED <<graph, ncalls>>

Next ==
    \/ insert_layer
    \/ replace_layer
    \/ delete_layer
    \/ delete_channels
    \/ CoreLoop
    \/ CoreFinish

Spec == Init /\ [][Next]_vars

\* Two calls in a row.
NextTwo == Next \/ Again

SpecTwo == Init /\ [][NextTwo]_vars

(***************************************************************************)
(* Properties                                                              *)
(***************************************************************************)
Returned == pc = "done" /\ result.status = "ok"

InGraph(l) == l.id \in LayerIds(graph)

\* The node instances of the target layer the call edits.
SelectedNodes ==
    LET all == InboundNodes(model, layer)
    IN IF call.node_indices = <<>> THEN SeqToSet(all)
       ELSE {all[i + 1] : i \in SeqToSet(call.node_indices)}

IsInput(p) == p \in SeqToSet(model.inputs)

\* The tensor that stands for the output of node instance p in the new graph
\* when nothing is substituted for it.
Rebuilt(p) == IF IsInput(p) THEN OldT(p) ELSE ctx.finished_nodes[p].out

\* The node the edit created for node instance p.
RebuiltNode(p) == ctx.built[ctx.finished_nodes[p].out.i]

\* Rebuilt node u reads, where node instance u read p, the tensor t.
Reads(u, p, t) ==
    /\ u \in DOMAIN ctx.finished_nodes
    /\ \A j \in 1..Len(model.nodes[u].inb) :
           model.nodes[u].inb[j] = p => RebuiltNode(u).ins[j] = t

\* C1: after insert at a single-input target T with producer P, T reads the
\* new operation's output, the new operation reads the rebuilt output of P,
\* and every other consumer of P that is no selected target still reads the
\* rebuilt output of P.
C1_InsertOnlyBeforeTarget ==
    (Returned /\ call.fn = "insert") =>
        \A t \in SelectedNodes :
            Len(model.nodes[t].inb) = 1 =>
                LET P == model.nodes[t].inb[1]
                IN /\ t \in DOMAIN ctx.finished_nodes
                   /\ RebuiltNode(t).ins[1].new
                   /\ ctx.built[RebuiltNode(t).ins[1].i].op.id = call.new_layer.id
                   /\ ctx.built[RebuiltNode(t).ins[1].i].ins = <<Rebuilt(P)>>
                   /\ \A u \in Consumers(model, P) \ SelectedNodes :
                          Reads(u, P, Rebuilt(P))

\* C2: a call that leaves copy out returns a graph that shares no node
\* instance with the caller's graph, nor with the graph returned by another
\* such call on the same graph.
C2_OmittedCopyIsolates ==
    (Returned /\ call.copy_arg = "omitted") =>
        /\ result.ids \cap NodeIds(graph) = {}
        /\ (prev.status = "ok" /\ prev.copy_arg = "omitted") =>
               result.ids \cap prev.ids = {}

\* C3: an edit whose target layer is not in the graph fails with
\* OperationNotFound, before any layer or node is built.
C3_AbsentTargetFailsFirst ==
    (pc = "done" /\ ~InGraph(call.layer)) =>
        /\ result.status = "OperationNotFound"
        /\ ctx.built = <<>>
        /\ ctx.nextId = FirstId

OutOfRange(c) ==
    /\ c.fn = "delete_channels"
    /\ c.layer.chan # "none"
    /\ \E k \in 1..Len(c.channel_indices) : c.channel_indices[k] >= c.layer.count

\* C4: delete_channels with a channel index at or above the channel count of
\* the target fails with ChannelIndexOutOfRange, returns no graph, and has
\* built nothing and copied nothing: the caller's graph is as it was.
C4_OutOfRangeFails ==
    (pc # "idle" /\ OutOfRange(call)) =>
        /\ pc = "done"
        /\ result = [status |-> "ChannelIndexOutOfRange", outputs |-> <<>>, ids |-> {}]
        /\ ctx = NewCtx(FirstId)
        /\ model = graph
        /\ replace_tensors = <<>>

C4_Witness ==
    /\ pc = "done"
    /\ OutOfRange(call)
    /\ InGraph(call.layer)
    /\ \E k \in 1..Len(call.channel_indices) : call.channel_indices[k] < call.layer.count
    /\ result.status = "ChannelIndexOutOfRange"

\* The target layer is in the graph and is called on two or more tensors.
MultiInputTarget ==
    /\ InGraph(call.layer)
    /\ \E p \in 1..Len(graph.nodes) :
           /\ graph.layers[graph.nodes[p].layer].id = call.layer.id
           /\ Len(graph.nodes[p].inb) >= 2

\* C5: insert and delete_layer at a multi-input target fail with
\* MultiInputUnsupported before any layer is called on any tensor.
C5_MultiInputBuildsNothing ==
    (pc = "done" /\ call.fn \in {"insert", "delete"} /\ MultiInputTarget) =>
        /\ result.status = "MultiInputUnsupported"
        /\ ctx.built = <<>>

\* The layer of node instance p in the model being edited.
LayerOf(p) == model.layers[model.nodes[p].layer]

\* C6, as stated: replace_layer at a multi-input target is rejected with
\* MultiInputUnsupported and returns no graph.
C6_ReplaceRejectsMultiInput ==
    (pc = "done" /\ call.fn = "replace" /\ MultiInputTarget) =>
        /\ result.status = "MultiInputUnsupported"
        /\ result.outputs = <<>>

\* C6, amended: replace_layer at a multi-input target returns a graph in
\* which the new layer is called on the rebuilt inbound tensors of the target,
\* all of them and in their order, and stands where the target stood.
C6_ReplaceAcceptsMultiInput ==
    (pc = "done" /\ call.fn = "replace" /\ MultiInputTarget) =>
        /\ result.status = "ok"
        /\ \A p \in SelectedNodes :
               /\ p \in DOMAIN replace_tensors
               /\ replace_tensors[p].mask.none
               /\ replace_tensors[p].out.new
               /\ ctx.built[replace_tensors[p].out.i].op = call.new_layer
               /\ ctx.built[replace_tensors[p].out.i].ins =
                      [j \in 1..Len(model.nodes[p].inb) |-> Rebuilt(model.nodes[p].inb[j])]
               /\ \A k \in 1..Len(model.outputs) :
                      model.outputs[k] = p => result.outputs[k] = replace_tensors[p].out
        /\ \A k \in 1..Len(ctx.built) : ctx.built[k].of \notin SelectedNodes

C6_Witness ==
    /\ Returned
    /\ call.fn = "replace"
    /\ MultiInputTarget
    /\ \E p \in SelectedNodes : Len(ctx.built[replace_tensors[p].out.i].ins) >= 2

\* C7: in insert_layer, replace_layer and delete_layer every delete mask is
\* None, so every layer called during the edit, the caller's new layer apart,
\* is the layer the model already had at that node, with the weights it has
\* in the caller's graph; no layer is made anew and no mask rule fails.
C7_MasksAbsentLayersKept ==
    (call.fn \in {"insert", "replace", "delete"}) =>
        /\ \A k \in 1..Len(ctx.built) :
               LET b == ctx.built[k]
               IN /\ \A j \in 1..Len(b.masks) : b.masks[j].none
                  /\ b.of = 0 => b.op = call.new_layer
                  /\ b.of # 0 =>
                         /\ b.op = LayerOf(b.of)
                         /\ b.op.weights = graph.layers[model.nodes[b.of].layer].weights
                         /\ b.op.name = graph.layers[model.nodes[b.of].layer].name
        /\ \A q \in DOMAIN ctx.finished_nodes : ctx.finished_nodes[q].mask.none
        /\ \A q \in DOMAIN replace_tensors : replace_tensors[q].mask.none
        /\ result.status \notin {"UnsupportedOperationKind", "RuntimeError", "IndexError"}

\* An edit without masks has returned a graph in which a dense layer stands
\* after the edit site and another layer is rebuilt on the model input.
C7_Witness ==
    /\ Returned
    /\ call.fn \in {"insert", "replace", "delete"}
    /\ \E k \in 1..Len(ctx.built) :
           /\ ctx.built[k].of # 0
           /\ ctx.built[k].op.kind = "Dense"
           /\ \E j \in 1..Len(ctx.built[k].ins) : ctx.built[k].ins[j].new
    /\ \E k \in 1..Len(ctx.built) :
           /\ ctx.built[k].of # 0
           /\ ctx.built[k].ins = <<OldT(model.inputs[1])>>

\* The k-th node created is the rebuilt node of a dense node instance whose
\* one inbound mask marks a channel as deleted.
AbsorbingDense(k) ==
    LET b == ctx.built[k]
    IN /\ b.of # 0
       /\ LayerOf(b.of).kind = "Dense"
       /\ Len(b.masks) = 1
       /\ ~b.masks[1].none
       /\ \E i \in 1..Len(b.masks[1].data) : ~b.masks[1].data[i]

\* C8: in delete_channels a dense layer that takes a deletion in hands on no
\* mask: its outbound mask is None, and every layer called on its output
\* gets None for it and is the layer the model had there.
C8_DenseEndsCascade ==
    (call.fn = "delete_channels") =>
        \A k \in 1..Len(ctx.built) :
            AbsorbingDense(k) =>
                /\ ctx.finished_nodes[ctx.built[k].of].mask.none
                /\ \A u \in 1..Len(ctx.built) : \A j \in 1..Len(ctx.built[u].ins) :
                       (ctx.built[u].of # 0 /\ ctx.built[u].ins[j] = NewT(k)) =>
                           /\ ctx.built[u].masks[j].none
                           /\ ctx.built[u].op = LayerOf(ctx.built[u].of)

\* The k-th node created is the rebuilt node of a dense node instance that
\* got one 1-D mask, as long as its kernel has rows.
MaskedDense(k) ==
    LET b == ctx.built[k]
    IN /\ b.of # 0
       /\ LayerOf(b.of).kind = "Dense"
       /\ Len(b.masks) = 1
       /\ ~b.masks[1].none
       /\ b.masks[1].shape = <<LayerOf(b.of).weights[1].shape[1]>>

\* C9: a dense layer rebuilt under a 1-D mask m has as its kernel the rows i
\* of the old kernel with m[i] true, in their order and with their values;
\* its columns, its bias and its unit count are those of the old layer.
C9_DenseKeepsTrueRows ==
    \A k \in 1..Len(ctx.built) :
        MaskedDense(k) =>
            LET old  == LayerOf(ctx.built[k].of)
                new  == ctx.built[k].op
                m    == ctx.built[k].masks[1].data
                keep == SetToSeq({i \in 0..(Len(m) - 1) : m[i + 1]})
                cols == old.weights[1].shape[2]
            IN /\ new.weights[1].shape = <<Len(keep), cols>>
               /\ Len(new.weights[1].data) = Len(keep) * cols
               /\ \A r \in 1..Len(keep), c \in 1..cols :
                      new.weights[1].data[(r - 1) * cols + c] =
                          old.weights[1].data[keep[r] * cols + c]
               /\ new.weights[2] = old.weights[2]
               /\ new.count = old.count
               /\ new.name = old.name
               /\ new.oshape = old.oshape

\* delete_channels has returned a graph in which a dense layer lost a row
\* that is not its last one.
C9_Witness ==
    /\ Returned
    /\ \E k \in 1..Len(ctx.built) :
           /\ MaskedDense(k)
           /\ \E i, j \in 1..Len(ctx.built[k].masks[1].data) :
                  /\ i < j
                  /\ ~ctx.built[k].masks[1].data[i]
                  /\ ctx.built[k].masks[1].data[j]

\* The nodes created for node instance p.
BuiltFor(p) == {k \in 1..Len(ctx.built) : ctx.built[k].of = p}

Unsubstituted(p) == p \notin DOMAIN replace_tensors

\* C10: no node instance has its layer called twice, however many paths
\* reach it; the one tensor so made is what finished_nodes holds, and every
\* rebuilt consumer of an unsubstituted node instance is called on that same
\* tensor.  A returned graph has each unsubstituted output built once.
C10_EachNodeBuiltOnce ==
    /\ \A p \in 1..Len(model.nodes) : Cardinality(BuiltFor(p)) <= 1
    /\ \A p \in DOMAIN ctx.finished_nodes :
           BuiltFor(p) = {ctx.finished_nodes[p].out.i} /\ ctx.finished_nodes[p].out.new
    /\ \A k \in 1..Len(ctx.built) :
           LET u == ctx.built[k].of
           IN u # 0 =>
                  \A j \in 1..Len(model.nodes[u].inb) :
                      LET q == model.nodes[u].inb[j]
                      IN Unsubstituted(q) =>
                             /\ IsInput(q) \/ q \in DOMAIN ctx.finished_nodes
                             /\ ctx.built[k].ins[j] = Rebuilt(q)
    /\ Returned =>
           \A k \in 1..Len(model.outputs) :
               LET o == model.outputs[k]
               IN (Unsubstituted(o) /\ ~IsInput(o)) =>
                      /\ Cardinality(BuiltFor(o)) = 1
                      /\ result.outputs[k] = ctx.finished_nodes[o].out

\* Two outputs of a returned graph were rebuilt on one node instance that is
\* neither substituted nor the model input.
C10_Witness ==
    /\ Returned
    /\ \E q \in 1..Len(model.nodes) :
           /\ ~IsInput(q)
           /\ Unsubstituted(q)
           /\ Cardinality(BuiltFor(q)) = 1
           /\ \E u, v \in SeqToSet(model.outputs) \cap DOMAIN ctx.finished_nodes :
                  /\ u # v
                  /\ q \in SeqToSet(model.nodes[u].inb)
                  /\ q \in SeqToSet(model.nodes[v].inb)
                  /\ RebuiltNode(u).ins = <<ctx.finished_nodes[q].out>>
                  /\ RebuiltNode(v).ins = <<ctx.finished_nodes[q].out>>

\* What _rebuild_rec has to return for node instance q when it is called
\* with the substitutions rt and ends with the cache fin: the substitute if
\* there is one, else the cached pair, else the model input and its mask.
Resolved(q, rt, fin) ==
    IF q \in DOMAIN rt THEN rt[q]
    ELSE IF q \in DOMAIN fin THEN fin[q]
    ELSE [out  |-> OldT(q),
          mask |-> IF call.input_delete_masks = <<>> THEN None
                   ELSE call.input_delete_masks[IndexOf(model.inputs, q)]]

\* The nodes created by the step from this state to the next.
NewlyBuilt == (Len(ctx.built) + 1)..Len(ctx'.built)

\* C11: in every call of rebuild_submodel a node instance whose output is a
\* key of replace_tensors is answered with its substitute, also when it is in
\* finished_nodes and also when it is a model input; finished_nodes answers
\* only for unsubstituted node instances, and the model inputs only for node
\* instances that are neither.  This is said of every layer called during
\* the step, of the tensors handed to the modifier function and of the
\* outputs of the returned model.
C11_SubstituteFirst ==
    [][/\ \A k \in NewlyBuilt :
              LET b == ctx'.built[k]
                  u == IF b.of # 0 THEN b.of
                       ELSE InboundNodes(model, layer)[Head(todo) + 1]
              IN /\ Len(b.ins) = Len(model.nodes[u].inb)
                 /\ \A j \in 1..Len(model.nodes[u].inb) :
                        LET q == model.nodes[u].inb[j]
                            r == Resolved(q, replace_tensors, ctx'.finished_nodes)
                        IN /\ b.ins[j] = r.out
                           /\ b.of # 0 => b.masks[j] = r.mask
                           /\ (q \notin DOMAIN replace_tensors
                               /\ q \notin DOMAIN ctx'.finished_nodes) => IsInput(q)
       /\ (pc' = "done" /\ result'.status = "ok") =>
              \A k \in 1..Len(model.outputs) :
                  result'.outputs[k] =
                      Resolved(model.outputs[k], replace_tensors, ctx'.finished_nodes).out
      ]_vars

\* A returned graph in which one rebuilt layer reads the substitute of a node
\* instance that is in finished_nodes with another tensor, and one reads the
\* substitute of the model input.
C11_Witness ==
    /\ Returned
    /\ \E k \in 1..Len(ctx.built) :
           /\ ctx.built[k].of # 0
           /\ \E j \in 1..Len(ctx.built[k].ins) :
                  LET q == model.nodes[ctx.built[k].of].inb[j]
                  IN /\ q \in DOMAIN replace_tensors
                     /\ q \in DOMAIN ctx.finished_nodes
                     /\ ctx.finished_nodes[q].out # replace_tensors[q].out
                     /\ ctx.built[k].ins[j] = replace_tensors[q].out
    /\ \E k \in 1..Len(ctx.built) :
           /\ ctx.built[k].of # 0
           /\ \E j \in 1..Len(ctx.built[k].ins) :
                  LET q == model.nodes[ctx.built[k].of].inb[j]
                  IN /\ IsInput(q)
                     /\ q \in DOMAIN replace_tensors
                     /\ ctx.built[k].ins[j] = replace_tensors[q].out

RECURSIVE Ancestors(_)
\* The node instances from which node instance p is reached.
Ancestors(p) ==
    SeqToSet(model.nodes[p].inb)
        \cup UNION {Ancestors(q) : q \in SeqToSet(model.nodes[p].inb)}

\* The node instance of the target layer with the given node index.
NodeAt(node_index) == InboundNodes(model, layer)[node_index + 1]

\* The selected node instances the loop has yet to visit, and those it has
\* visited.
Pending == {NodeAt(todo[i]) : i \in 1..Len(todo)}

Visited == SelectedNodes \ Pending

\* The tensor the modifier function substitutes when it visits node instance
\* A: the output of its producer for insert_layer, its own output otherwise.
SubstKey(A) == IF call.fn = "insert" THEN model.nodes[A].inb[1] ELSE A

InLoop == pc \in {"loop", "done"} /\ layer # 0

\* C12: the selected node instances are visited deepest first (depth: the
\* longest path to an output), so when A is an ancestor of B the substitution
\* for A is in replace_tensors before the part of the model before B is
\* rebuilt, and nothing is rebuilt on the unedited A: the layer of A is
\* never called without the edit (not at all where the edit substitutes the
\* output of A, and only on the output of the new layer for insert_layer).
C12_DeepestFirst ==
    InLoop =>
        /\ \A i, j \in 1..Len(todo) :
               i < j => get_node_depth(model, NodeAt(todo[i]))
                            >= get_node_depth(model, NodeAt(todo[j]))
        /\ \A A \in Visited, B \in Pending :
               get_node_depth(model, A) >= get_node_depth(model, B)
        /\ (pc = "loop" /\ todo # <<>>) =>
               \A A \in SelectedNodes :
                   A \in Ancestors(NodeAt(Head(todo))) =>
                       /\ A \in Visited
                       /\ SubstKey(A) \in DOMAIN replace_tensors
        /\ \A A, B \in SelectedNodes :
               A \in Ancestors(B) =>
                   \A k \in BuiltFor(A) :
                       /\ call.fn = "insert"
                       /\ Len(ctx.built[k].ins) = 1
                       /\ ctx.built[k].ins[1].new
                       /\ ctx.built[ctx.built[k].ins[1].i].of = 0
                       /\ ctx.built[ctx.built[k].ins[1].i].op = call.new_layer

\* The loop has visited A and has yet to visit B, a descendant of A.
C12_Witness ==
    /\ pc = "loop"
    /\ \E A \in Visited, B \in {NodeAt(todo[i]) : i \in {1} \cap DOMAIN todo} :
           /\ A \in Ancestors(B)
           /\ SubstKey(A) \in DOMAIN replace_tensors
           /\ get_node_depth(model, A) > get_node_depth(model, B)

\* delete_channels took its channel indices and went on to edit the model.
Accepted == call.fn = "delete_channels" /\ ~call.new_delete_mask.none

\* C13: whenever delete_channels takes its list of channel indices, the
\* units of the new layer's config are the size of the last axis of each of
\* its trimmed weights, and the number of channels its delete mask leaves
\* True.
C13_CountMatchesWeightsAndMask ==
    Accepted =>
        /\ \A j \in 1..Len(call.new_layer.weights) :
               call.new_layer.count = Last(call.new_layer.weights[j].shape)
        /\ call.new_layer.count =
               Cardinality({c \in 1..Last(call.new_delete_mask.shape) :
                               call.new_delete_mask.data[c]})

====
